---- MODULE Spec2Model ----
(***************************************************************************)
(* A model of the LINE messaging adapter: the channel registry             *)
(* (MessagingApi.channels : HashMap<usize, Mutex<Channel>>), signature     *)
(* verification (MessagingApi::sign), per-event dispatch                   *)
(* (MessagingApi::handle_event, Channel::handle_event), the access-token   *)
(* lifecycle (MessagingApi::get_access_token, oauth::issue_access_token)   *)
(* and reply sending (reply::reply).                                       *)
(*                                                                         *)
(* Rust values are represented as follows.                                 *)
(*   Option<T>   : None is <<>>, Some(x) is <<x>>                          *)
(*   String      : the empty string "" is <<>>; reply tokens and access    *)
(*                 tokens are non-empty tuples; secrets are TLA+ strings   *)
(*   Mutex<T>    : [data, holder, poisoned]; holder = 0 means unlocked     *)
(*   panic       : the handling task ends with a result in Panics; a guard *)
(*                 dropped while panicking poisons its mutex               *)
(***************************************************************************)
EXTENDS Integers, Sequences, FiniteSets, TLC

\* Number of concurrent webhook deliveries (handling tasks).
NumTasks == 2
\* Largest number of events in one delivery.
MaxEvents == 2

Tasks == 1..NumTasks

None == <<>>
Some(x) == <<x>>
EmptyString == <<>>

\* Keys a delivery may be addressed to; UnregisteredId has no channel.
RegisteredIds == {1, 2}
UnregisteredId == 3
Keys == RegisteredIds \cup {UnregisteredId}

VARIABLES
  channels,   \* MessagingApi.channels : id -> Mutex<Channel>
  pc,         \* position of each handling task
  delivery,   \* the parsed RequestBody (and digest header) each task handles
  idx,        \* index of the event the task is dispatching
  local,      \* handle_event's locals: the stitched reply and the token
  result,     \* what the delivery returned to its caller
  verified,   \* sign returned Ok(()) for the task's delivery
  handled,    \* per task: the handler invocations made, in order
  issued,     \* per channel: requests received by the token endpoint
  sent,       \* requests received by the reply endpoint
  registered, \* the channels passed to add_channel, in order
  raw,        \* the body text handed to RequestBody::try_from
  parsed      \* what RequestBody::try_from returned for it

vars == <<channels, pc, delivery, idx, local, result, verified, handled, issued, sent,
          registered, raw, parsed>>

(***************************************************************************)
(* Channel, Reply, WebhookEvent                                            *)
(***************************************************************************)

\* Channel::new
Channel_new(id, secret, user_id, access_token, handler) ==
  [id |-> id, secret |-> secret, user_id |-> user_id, access_token |-> access_token,
   handler |-> handler]

\* Mutex::new(channel)
Mutex_new(channel) == [data |-> channel, holder |-> 0, poisoned |-> FALSE]

\* MessagingApi::new
MessagingApi_new == [k \in {} |-> Mutex_new(Channel_new(0, "", "", None, ""))]

\* A registration that keeps the entry a key already has.
add_channel_keep_first(api, channel) ==
  [k \in (DOMAIN api) \cup {channel.id} |->
     IF k \in DOMAIN api THEN api[k] ELSE Mutex_new(channel)]

\* MessagingApi::add_channel : HashMap::insert keyed by channel.id
add_channel(api, channel) ==
  [k \in (DOMAIN api) \cup {channel.id} |->
     IF k = channel.id THEN Mutex_new(channel) ELSE api[k]]

\* Reply::new : the reply token starts as the empty string
Reply_new(messages, notification_disabled) ==
  [reply_token |-> EmptyString, messages |-> messages,
   notification_disabled |-> notification_disabled]

\* WebhookEvent::get_reply_token : every variant yields property.reply_token
get_reply_token(event) ==
  CASE event.type = "Message"      -> event.property.reply_token
    [] event.type = "Follow"       -> event.property.reply_token
    [] event.type = "Unfollow"     -> event.property.reply_token
    [] event.type = "Join"         -> event.property.reply_token
    [] event.type = "Leave"        -> event.property.reply_token
    [] event.type = "MemberJoined" -> event.property.reply_token
    [] event.type = "MemberLeft"   -> event.property.reply_token
    [] event.type = "Postback"     -> event.property.reply_token
    [] event.type = "Beacon"       -> event.property.reply_token
    [] event.type = "AccountLink"  -> event.property.reply_token
    [] event.type = "Things"       -> event.property.reply_token

\* Channel::handle_event with the assignment of line 48 left out.
Channel_handle_event_unstitched(handler_out, event) ==
  IF handler_out = None THEN None ELSE Some(handler_out[1])

\* Channel::handle_event : `handler_out` is what the boxed handler returned
\* (None or Some(reply)); a reply gets the event's reply token only if the
\* event carries one.
Channel_handle_event(handler_out, event) ==
  IF handler_out = None THEN None
  ELSE LET reply == handler_out[1]
           token == get_reply_token(event)
       IN  IF token # None
           THEN Some([reply EXCEPT !.reply_token = token[1]])
           ELSE Some(reply)

(***************************************************************************)
(* Signature verification                                                  *)
(***************************************************************************)

\* HMAC-SHA256-BASE64 of `message` under `secret`, as an ideal MAC.
Hmac(secret, message) == <<secret, message>>

\* Algorithm::HmacSha256Base64(secret).verify(message, digest)
verify(secret, message, digest) == Hmac(secret, message) = digest

(***************************************************************************)
(* Registry lookup and the channel mutex                                   *)
(***************************************************************************)

\* get_channel that falls back to some registered channel for an unknown key.
get_channel_or_default(chs, channel_id) ==
  IF channel_id \in DOMAIN chs
  THEN [ok |-> TRUE, err |-> "", id |-> channel_id]
  ELSE [ok |-> TRUE, err |-> "", id |-> CHOOSE c \in DOMAIN chs : TRUE]

\* MessagingApi::get_channel
get_channel(chs, channel_id) ==
  IF channel_id \in DOMAIN chs
  THEN [ok |-> TRUE, err |-> "", id |-> channel_id]
  ELSE [ok |-> FALSE, err |-> "Destination", id |-> 0]

\* A guard whose drop does not release the lock.
Unlock_leaked(m, panicking) ==
  [m EXCEPT !.poisoned = m.poisoned \/ panicking]

\* MutexGuard::drop : releases the lock; a guard dropped by a panicking
\* thread poisons the mutex.
Unlock(m, panicking) ==
  [m EXCEPT !.holder = 0, !.poisoned = m.poisoned \/ panicking]

(***************************************************************************)
(* Inputs                                                                  *)
(***************************************************************************)

\* The reply token the platform put on event k of delivery t.
ReplyTokenOf(t, k) == <<"rt", t, k>>

\* The event kinds used as inputs: one that carries a reply token and one
\* that does not.
EventInputs(t, k) ==
  { [type |-> "Follow",   property |-> [reply_token |-> Some(ReplyTokenOf(t, k))]],
    [type |-> "Unfollow", property |-> [reply_token |-> None]] }

EventSeqs(t) ==
  UNION { { s \in [1..n -> UNION { EventInputs(t, k) : k \in 1..n }] :
              \A k \in 1..n : s[k] \in EventInputs(t, k) } : n \in 1..MaxEvents }

\* Secrets a delivery's digest may have been computed with.
SignKeys == {"s1", "s2"}

NoDelivery == [destination |-> 0, src |-> 0, digest |-> <<>>, events |-> <<>>]

NoLocal == [chan |-> 0, reply |-> None, token |-> None]

\* Outcomes of the POST to the token endpoint: the status received (with a
\* body that decodes), a transport failure, or a 200/400 response whose body
\* does not decode into ResponseBody/ErrorResponseBody.
IssueOutcomes == {"200", "400", "500", "transport", "undecodable"}

\* Outcomes of the POST to the reply endpoint.
ReplyOutcomes == {"200", "500", "transport"}

\* The token the endpoint returns for its n-th request from a channel.
IssuedToken(channel_id, n) == <<"at", channel_id, n>>

\* The token channel 2 is constructed with (Channel::new's access_token).
PresetToken == <<"at", 2, 0>>

(***************************************************************************)
(* Token issuance and reply sending                                        *)
(***************************************************************************)

\* oauth::issue_access_token : `outcome` is what the POST met, `n` numbers
\* the request. send().unwrap() and res.json().unwrap() panic.
issue_access_token(channel_id, channel_secret, outcome, n) ==
  CASE outcome = "transport"   -> [tag |-> "Panic", token |-> <<>>, err |-> ""]
    [] outcome = "undecodable" -> [tag |-> "Panic", token |-> <<>>, err |-> ""]
    [] outcome = "200" -> [tag |-> "Ok", token |-> IssuedToken(channel_id, n), err |-> ""]
    [] outcome = "400" -> [tag |-> "Err", token |-> <<>>, err |-> "OAuth.ErrorResponse"]
    [] OTHER -> [tag |-> "Err", token |-> <<>>, err |-> "OAuth.UnexpectedStatusResponse"]

\* get_access_token with line 122 (channel.access_token = Some(..)) dropped:
\* the issued token is returned but not cached.
get_access_token_uncached(channel, outcome, n) ==
  IF channel.access_token # None
  THEN [tag |-> "Ok", token |-> channel.access_token[1], err |-> "",
        channel |-> channel, called |-> FALSE]
  ELSE LET r == issue_access_token(channel.id, channel.secret, outcome, n)
       IN  [tag |-> r.tag, token |-> r.token, err |-> r.err,
            channel |-> channel, called |-> TRUE]

\* get_access_token that ignores the cached token and always issues.
get_access_token_always_issue(channel, outcome, n) ==
  LET r == issue_access_token(channel.id, channel.secret, outcome, n)
  IN  IF r.tag = "Ok"
      THEN [tag |-> "Ok", token |-> r.token, err |-> "",
            channel |-> [channel EXCEPT !.access_token = Some(r.token)],
            called |-> TRUE]
      ELSE [tag |-> r.tag, token |-> <<>>, err |-> r.err,
            channel |-> channel, called |-> TRUE]

\* get_access_token that moves the cached token out of the channel when it
\* returns it (access_token.take()).
get_access_token_take(channel, outcome, n) ==
  IF channel.access_token # None
  THEN [tag |-> "Ok", token |-> channel.access_token[1], err |-> "",
        channel |-> [channel EXCEPT !.access_token = None], called |-> FALSE]
  ELSE LET r == issue_access_token(channel.id, channel.secret, outcome, n)
       IN  IF r.tag = "Ok"
           THEN [tag |-> "Ok", token |-> r.token, err |-> "",
                 channel |-> [channel EXCEPT !.access_token = Some(r.token)],
                 called |-> TRUE]
           ELSE [tag |-> r.tag, token |-> <<>>, err |-> r.err,
                 channel |-> channel, called |-> TRUE]

\* MessagingApi::get_access_token : returns the cached token, or issues
\* one and caches it. `called` tells whether the endpoint was called.
get_access_token(channel, outcome, n) ==
  IF channel.access_token # None
  THEN [tag |-> "Ok", token |-> channel.access_token[1], err |-> "",
        channel |-> channel, called |-> FALSE]
  ELSE LET r == issue_access_token(channel.id, channel.secret, outcome, n)
       IN  IF r.tag = "Ok"
           THEN [tag |-> "Ok", token |-> r.token, err |-> "",
                 channel |-> [channel EXCEPT !.access_token = Some(r.token)],
                 called |-> TRUE]
           ELSE [tag |-> r.tag, token |-> <<>>, err |-> r.err,
                 channel |-> channel, called |-> TRUE]

\* reply::reply : send().expect(..) panics on a transport failure; any
\* status received, 200 or not, is logged and the result is Ok(()).
reply(access_token, reply_body, outcome) ==
  IF outcome = "transport" THEN [tag |-> "Panic", err |-> ""]
  ELSE [tag |-> "Ok", err |-> ""]

(***************************************************************************)
(* RequestBody: the body text and its parse                                *)
(***************************************************************************)

\* Largest number of members in the JSON object of a body text.
MaxMembers == 3

\* A body text is the sequence of the members of its JSON object as written,
\* whether it is written with whitespace between the tokens, and whether it
\* is complete (not cut off before the closing brace). Two texts are the
\* same String exactly when they agree in all three.
Text(members, spaced, complete) ==
  [members |-> members, spaced |-> spaced, complete |-> complete]

\* The empty String.
EmptyText == Text(<<>>, FALSE, FALSE)

\* The String "{}".
BracesText == Text(<<>>, FALSE, TRUE)

\* The String a JSON string literal denotes.
StringOf(val) == IF val = "" THEN EmptyText ELSE BracesText

\* The members a body text may have: key, JSON type of the value, value.
Members ==
  { [key |-> "destination", kind |-> "string", val |-> "1"],
    [key |-> "destination", kind |-> "number", val |-> "1"],
    [key |-> "events",      kind |-> "array",  val |-> "[]"],
    [key |-> "events",      kind |-> "array",  val |-> "[follow]"],
    [key |-> "events",      kind |-> "array",  val |-> "[bogus]"],
    [key |-> "events",      kind |-> "string", val |-> "x"],
    [key |-> "src",         kind |-> "string", val |-> "{}"],
    [key |-> "src",         kind |-> "number", val |-> "0"],
    [key |-> "mode",        kind |-> "string", val |-> "active"] }

\* The body texts received.
Texts ==
  { Text(ms, spaced, complete) :
      ms \in UNION { [1..n -> Members] : n \in 0..MaxMembers },
      spaced \in BOOLEAN, complete \in BOOLEAN }

\* Placeholder where a Result carries no RequestBody.
NoBody == [destination |-> "", events |-> <<>>, src |-> EmptyText]

\* Vec<WebhookEvent> deserialized from a JSON array of known event objects.
EventsOf(val) == IF val = "[follow]" THEN <<"Follow">> ELSE <<>>

\* The members of text s written under key k, in order.
MembersAt(s, k) == SelectSeq(s.members, LAMBDA m : m.key = k)

\* serde_json::from_str::<RequestBody> : the derived Deserialize. The text
\* must be complete; destination and events are required, src defaults to
\* the empty String, a field of the struct written twice or with a value
\* of the wrong type (or an event of no known type) is an error, and
\* members under other keys are skipped.
from_str(s) ==
  LET d == MembersAt(s, "destination")
      e == MembersAt(s, "events")
      r == MembersAt(s, "src")
      well_typed ==
        /\ \A i \in 1..Len(d) : d[i].kind = "string"
        /\ \A i \in 1..Len(e) : e[i].kind = "array" /\ e[i].val # "[bogus]"
        /\ \A i \in 1..Len(r) : r[i].kind = "string"
  IN  IF s.complete /\ Len(d) = 1 /\ Len(e) = 1 /\ Len(r) <= 1 /\ well_typed
      THEN [tag |-> "Ok", err |-> "",
            body |-> [destination |-> d[1].val,
                      events |-> EventsOf(e[1].val),
                      src |-> IF Len(r) = 1 THEN StringOf(r[1].val) ELSE EmptyText]]
      ELSE [tag |-> "Err", err |-> "serde_json", body |-> NoBody]

\* try_from without line 19 (body.src = s): src is what the parse left in it.
try_from_parsed_src(s) ==
  LET r == from_str(s)
  IN  IF r.tag = "Ok"
      THEN [tag |-> "Ok", err |-> "", body |-> r.body]
      ELSE [tag |-> "Err", err |-> "RequestBodyError.Parse", body |-> NoBody]

\* RequestBody::try_from : `?` turns the serde_json error into
\* RequestBodyError::Parse; on success src is overwritten with s.
try_from(s) ==
  LET r == from_str(s)
  IN  IF r.tag = "Ok"
      THEN [tag |-> "Ok", err |-> "", body |-> [r.body EXCEPT !.src = s]]
      ELSE [tag |-> "Err", err |-> "RequestBodyError.Parse", body |-> NoBody]

\* try_from has not been called.
NotParsed == [tag |-> "NotYet", err |-> "", body |-> NoBody]

NothingParsed ==
  /\ raw = EmptyText
  /\ parsed = NotParsed

(***************************************************************************)
(* The handling task: handle_webhook = parse, sign, handle_event per event *)
(***************************************************************************)

\* Results that are uncaught faults of the handling task, by the call that
\* panicked: lock().unwrap(), issue_access_token's unwraps, reply's expect.
Panics == {"PanicLock", "PanicIssue", "PanicReply"}

Goto(t, p, i, r) ==
  /\ pc' = [pc EXCEPT ![t] = p]
  /\ idx' = [idx EXCEPT ![t] = i]
  /\ result' = [result EXCEPT ![t] = r]

\* The delivery ends: an error value is returned, or the task panicked.
Return(t, r) == Goto(t, "done", idx[t], r)

\* The pipeline's loop over the events, in their original order.
Dispatch(t, i) ==
  IF i <= Len(delivery[t].events)
  THEN Goto(t, "he_lock", i, result[t])
  ELSE Goto(t, "done", idx[t], "Ok")

\* The registry the integrator builds at startup: channel 1 has no token
\* yet, channel 2 is constructed with one.
StartupChannels ==
  << Channel_new(1, "s1", "U1", None, "h1"),
     Channel_new(2, "s2", "U2", Some(PresetToken), "h2") >>

InitChannels ==
  add_channel(add_channel(MessagingApi_new, StartupChannels[1]), StartupChannels[2])

\* No delivery has arrived yet.
NoDeliveries ==
  /\ pc = [t \in Tasks |-> "idle"]
  /\ delivery = [t \in Tasks |-> NoDelivery]
  /\ idx = [t \in Tasks |-> 0]
  /\ local = [t \in Tasks |-> NoLocal]
  /\ result = [t \in Tasks |-> ""]
  /\ verified = [t \in Tasks |-> FALSE]
  /\ handled = [t \in Tasks |-> <<>>]
  /\ issued = [c \in RegisteredIds |-> <<>>]
  /\ sent = {}

Init ==
  /\ channels = InitChannels
  /\ registered = StartupChannels
  /\ NoDeliveries
  /\ NothingParsed

\* A webhook delivery arrives and its body parses.
Receive(t) ==
  /\ pc[t] = "idle"
  /\ \E dest \in Keys, k \in SignKeys, evs \in EventSeqs(t) :
       delivery' = [delivery EXCEPT ![t] =
                      [destination |-> dest, src |-> t,
                       digest |-> Hmac(k, t), events |-> evs]]
  /\ pc' = [pc EXCEPT ![t] = "sign"]
  /\ UNCHANGED <<channels, idx, local, result, verified, handled, issued, sent, registered, raw, parsed>>

\* sign that reads the channel's secret without waiting for its lock.
SignLock_unguarded(t) ==
  /\ pc[t] = "sign"
  /\ LET r == get_channel(channels, delivery[t].destination)
     IN  IF ~r.ok
         THEN Return(t, r.err) /\ UNCHANGED <<channels, local>>
         ELSE /\ channels' = channels
              /\ local' = [local EXCEPT ![t].chan = r.id]
              /\ Goto(t, "sign_verify", idx[t], result[t])
  /\ UNCHANGED <<delivery, verified, handled, issued, sent, registered, raw, parsed>>

\* MessagingApi::sign, up to self.get_channel(channel_id)?.lock().unwrap()
SignLock(t) ==
  /\ pc[t] = "sign"
  /\ LET r == get_channel(channels, delivery[t].destination)
     IN  IF ~r.ok
         THEN Return(t, r.err) /\ UNCHANGED <<channels, local>>
         ELSE /\ channels[r.id].holder = 0
              /\ IF channels[r.id].poisoned
                 THEN Return(t, "PanicLock") /\ UNCHANGED <<channels, local>>
                 ELSE /\ channels' = [channels EXCEPT ![r.id].holder = t]
                      /\ local' = [local EXCEPT ![t].chan = r.id]
                      /\ Goto(t, "sign_verify", idx[t], result[t])
  /\ UNCHANGED <<delivery, verified, handled, issued, sent, registered, raw, parsed>>

\* sign that fills the channel's token cache once the signature is verified.
SignVerify_warm(t) ==
  /\ pc[t] = "sign_verify"
  /\ LET c == local[t].chan
         ok == verify(channels[c].data.secret, delivery[t].src, delivery[t].digest)
         r == get_access_token(channels[c].data, "200", Len(issued[c]) + 1)
     IN  /\ channels' = [channels EXCEPT ![c] =
                           Unlock([@ EXCEPT !.data = IF ok THEN r.channel ELSE @], FALSE)]
         /\ issued' = IF ok /\ r.called
                      THEN [issued EXCEPT ![c] =
                              Append(@, [client_id |-> channels[c].data.id,
                                         client_secret |-> channels[c].data.secret,
                                         outcome |-> "200"])]
                      ELSE issued
         /\ local' = [local EXCEPT ![t] = NoLocal]
         /\ verified' = [verified EXCEPT ![t] = ok]
         /\ IF ok THEN Dispatch(t, 1) ELSE Return(t, "Signature")
  /\ UNCHANGED <<delivery, handled, sent, registered, raw, parsed>>

\* MessagingApi::sign, the verification under the lock and the return
SignVerify(t) ==
  /\ pc[t] = "sign_verify"
  /\ LET c == local[t].chan
         ok == verify(channels[c].data.secret, delivery[t].src, delivery[t].digest)
     IN  /\ channels' = [channels EXCEPT ![c] = Unlock(@, FALSE)]
         /\ local' = [local EXCEPT ![t] = NoLocal]
         /\ verified' = [verified EXCEPT ![t] = ok]
         /\ IF ok THEN Dispatch(t, 1) ELSE Return(t, "Signature")
  /\ UNCHANGED <<delivery, handled, issued, sent, registered, raw, parsed>>

\* handle_event under one lock for the whole registry instead of one per
\* channel.
HandleEventLock_registry_lock(t) ==
  /\ pc[t] = "he_lock"
  /\ LET r == get_channel(channels, delivery[t].destination)
     IN  IF ~r.ok
         THEN Return(t, r.err) /\ UNCHANGED <<channels, local>>
         ELSE /\ \A c \in DOMAIN channels : channels[c].holder = 0
              /\ IF channels[r.id].poisoned
                 THEN Return(t, "PanicLock") /\ UNCHANGED <<channels, local>>
                 ELSE /\ channels' = [channels EXCEPT ![r.id].holder = t]
                      /\ local' = [local EXCEPT ![t].chan = r.id]
                      /\ Goto(t, "he_handler", idx[t], result[t])
  /\ UNCHANGED <<delivery, verified, handled, issued, sent, registered, raw, parsed>>

\* handle_event that enters without waiting for the channel's lock.
HandleEventLock_unguarded(t) ==
  /\ pc[t] = "he_lock"
  /\ LET r == get_channel(channels, delivery[t].destination)
     IN  IF ~r.ok
         THEN Return(t, r.err) /\ UNCHANGED <<channels, local>>
         ELSE /\ channels' = [channels EXCEPT ![r.id].holder = t]
              /\ local' = [local EXCEPT ![t].chan = r.id]
              /\ Goto(t, "he_handler", idx[t], result[t])
  /\ UNCHANGED <<delivery, verified, handled, issued, sent, registered, raw, parsed>>

\* MessagingApi::handle_event, up to self.get_channel(channel_id)?.lock().unwrap()
HandleEventLock(t) ==
  /\ pc[t] = "he_lock"
  /\ LET r == get_channel(channels, delivery[t].destination)
     IN  IF ~r.ok
         THEN Return(t, r.err) /\ UNCHANGED <<channels, local>>
         ELSE /\ channels[r.id].holder = 0
              /\ IF channels[r.id].poisoned
                 THEN Return(t, "PanicLock") /\ UNCHANGED <<channels, local>>
                 ELSE /\ channels' = [channels EXCEPT ![r.id].holder = t]
                      /\ local' = [local EXCEPT ![t].chan = r.id]
                      /\ Goto(t, "he_handler", idx[t], result[t])
  /\ UNCHANGED <<delivery, verified, handled, issued, sent, registered, raw, parsed>>

\* MessagingApi::handle_event: channel.handle_event(event); the handler
\* returns no reply or a reply built with Reply::new.
HandleEventHandler(t) ==
  /\ pc[t] = "he_handler"
  /\ \E out \in {None, Some(Reply_new(<<"hi">>, FALSE))} :
       LET c == local[t].chan
           ev == delivery[t].events[idx[t]]
           r == Channel_handle_event(out, ev)
       IN  /\ handled' = [handled EXCEPT ![t] =
                            Append(@, [idx |-> idx[t], replied |-> out # None])]
           /\ IF r = None
              THEN /\ channels' = [channels EXCEPT ![c] = Unlock(@, FALSE)]
                   /\ local' = [local EXCEPT ![t] = NoLocal]
                   /\ Dispatch(t, idx[t] + 1)
              ELSE /\ local' = [local EXCEPT ![t].reply = r]
                   /\ Goto(t, "he_token", idx[t], result[t])
                   /\ UNCHANGED channels
  /\ UNCHANGED <<delivery, verified, issued, sent, registered, raw, parsed>>

\* handle_event whose token cache is shared by the whole registry: a token
\* cached in any channel is taken for the channel being dispatched.
HandleEventToken_shared_cache(t) ==
  /\ pc[t] = "he_token"
  /\ \E outcome \in IssueOutcomes :
       LET c == local[t].chan
           cached == { d \in DOMAIN channels : channels[d].data.access_token # None }
           src == IF cached = {} THEN c ELSE CHOOSE d \in cached : TRUE
           r == get_access_token([channels[c].data EXCEPT
                                    !.access_token = channels[src].data.access_token],
                                 outcome, Len(issued[c]) + 1)
       IN  /\ issued' = IF r.called
                        THEN [issued EXCEPT ![c] =
                                Append(@, [client_id |-> channels[c].data.id,
                                           client_secret |-> channels[c].data.secret,
                                           outcome |-> outcome])]
                        ELSE issued
           /\ CASE r.tag = "Ok" ->
                   /\ channels' = [channels EXCEPT ![c].data = r.channel]
                   /\ local' = [local EXCEPT ![t].token = Some(r.token)]
                   /\ Goto(t, "he_reply", idx[t], result[t])
                [] r.tag = "Err" ->
                   /\ channels' = [channels EXCEPT ![c] = Unlock([@ EXCEPT !.data = r.channel], FALSE)]
                   /\ local' = [local EXCEPT ![t] = NoLocal]
                   /\ Return(t, r.err)
                [] OTHER ->
                   /\ channels' = [channels EXCEPT ![c] = Unlock([@ EXCEPT !.data = r.channel], TRUE)]
                   /\ local' = [local EXCEPT ![t] = NoLocal]
                   /\ Return(t, "PanicIssue")
  /\ UNCHANGED <<delivery, verified, handled, sent, registered, raw, parsed>>

\* MessagingApi::handle_event: Self::get_access_token(&mut channel)?
HandleEventToken(t) ==
  /\ pc[t] = "he_token"
  /\ \E outcome \in IssueOutcomes :
       LET c == local[t].chan
           r == get_access_token(channels[c].data, outcome, Len(issued[c]) + 1)
       IN  /\ issued' = IF r.called
                        THEN [issued EXCEPT ![c] =
                                Append(@, [client_id |-> channels[c].data.id,
                                           client_secret |-> channels[c].data.secret,
                                           outcome |-> outcome])]
                        ELSE issued
           /\ CASE r.tag = "Ok" ->
                   /\ channels' = [channels EXCEPT ![c].data = r.channel]
                   /\ local' = [local EXCEPT ![t].token = Some(r.token)]
                   /\ Goto(t, "he_reply", idx[t], result[t])
                [] r.tag = "Err" ->
                   /\ channels' = [channels EXCEPT ![c] = Unlock([@ EXCEPT !.data = r.channel], FALSE)]
                   /\ local' = [local EXCEPT ![t] = NoLocal]
                   /\ Return(t, r.err)
                [] OTHER ->
                   /\ channels' = [channels EXCEPT ![c] = Unlock([@ EXCEPT !.data = r.channel], TRUE)]
                   /\ local' = [local EXCEPT ![t] = NoLocal]
                   /\ Return(t, "PanicIssue")
  /\ UNCHANGED <<delivery, verified, handled, sent, registered, raw, parsed>>

\* handle_event that goes back to get_access_token and sends again when the
\* reply endpoint does not answer 200.
HandleEventReply_retry(t) ==
  /\ pc[t] = "he_reply"
  /\ \E outcome \in ReplyOutcomes :
       LET c == local[t].chan
       IN  /\ sent' = sent \cup {[task |-> t, idx |-> idx[t], channel |-> c,
                                  access_token |-> local[t].token[1],
                                  reply_token |-> local[t].reply[1].reply_token,
                                  outcome |-> outcome]}
           /\ IF outcome = "200"
              THEN /\ local' = [local EXCEPT ![t] = NoLocal]
                   /\ channels' = [channels EXCEPT ![c] = Unlock(@, FALSE)]
                   /\ Dispatch(t, idx[t] + 1)
              ELSE /\ local' = [local EXCEPT ![t].token = None]
                   /\ channels' = channels
                   /\ Goto(t, "he_token", idx[t], result[t])
  /\ UNCHANGED <<delivery, verified, handled, issued, registered, raw, parsed>>

\* MessagingApi::handle_event: reply::reply(&token, &reply)?; Ok(())
HandleEventReply(t) ==
  /\ pc[t] = "he_reply"
  /\ \E outcome \in ReplyOutcomes :
       LET c == local[t].chan
           r == reply(local[t].token[1], local[t].reply[1], outcome)
       IN  /\ sent' = sent \cup {[task |-> t, idx |-> idx[t], channel |-> c,
                                  access_token |-> local[t].token[1],
                                  reply_token |-> local[t].reply[1].reply_token,
                                  outcome |-> outcome]}
           /\ local' = [local EXCEPT ![t] = NoLocal]
           /\ CASE r.tag = "Ok" ->
                   /\ channels' = [channels EXCEPT ![c] = Unlock(@, FALSE)]
                   /\ Dispatch(t, idx[t] + 1)
                [] r.tag = "Err" ->
                   /\ channels' = [channels EXCEPT ![c] = Unlock(@, FALSE)]
                   /\ Return(t, r.err)
                [] OTHER ->
                   /\ channels' = [channels EXCEPT ![c] = Unlock(@, TRUE)]
                   /\ Return(t, "PanicReply")
  /\ UNCHANGED <<delivery, verified, handled, issued, registered, raw, parsed>>

Next ==
  \E t \in Tasks :
    \/ Receive(t)
    \/ SignLock(t)
    \/ SignVerify(t)
    \/ HandleEventLock(t)
    \/ HandleEventHandler(t)
    \/ HandleEventToken(t)
    \/ HandleEventReply(t)

Spec == Init /\ [][Next]_vars

(***************************************************************************)
(* Vocabulary of the properties                                            *)
(***************************************************************************)

Registered(t) == delivery[t].destination \in DOMAIN channels

\* The digest of delivery t is the HMAC of its raw body under the secret of
\* the channel it is addressed to.
SignatureMatches(t) ==
  /\ Registered(t)
  /\ verify(channels[delivery[t].destination].data.secret,
            delivery[t].src, delivery[t].digest)

\* The channel was registered without an access token.
Cold(c) == InitChannels[c].data.access_token = None

\* Every request the token endpoint received for channel c was answered 200.
IssuanceSucceeded(c) ==
  \A i \in 1..Len(issued[c]) : issued[c][i].outcome = "200"

\* The reply requests made while dispatching for task t.
SentBy(t) == { s \in sent : s.task = t }

\* Task t's dispatch of an event obtained an access token for its reply.
GotToken(t) == pc[t] = "he_reply" \/ SentBy(t) # {}

(***************************************************************************)
(* C1: the handler is invoked for an event of a delivery only after the    *)
(* signature of that delivery verified against the addressed channel's     *)
(* secret; a delivery whose signature does not match ends with the         *)
(* Signature error and zero handler invocations.                           *)
(***************************************************************************)
C1_SignatureGate ==
  \A t \in Tasks :
    /\ handled[t] # <<>> => verified[t] /\ SignatureMatches(t)
    /\ (pc[t] = "done" /\ Registered(t) /\ ~SignatureMatches(t))
         => result[t] = "Signature" /\ handled[t] = <<>>

(***************************************************************************)
(* C2: with issuance succeeding, the token endpoint is called exactly once *)
(* for a channel that had no token, however many concurrent dispatches     *)
(* each produce a reply, in every interleaving.                            *)
(***************************************************************************)
C2_SingleIssuance ==
  \A c \in DOMAIN channels :
    (Cold(c) /\ IssuanceSucceeded(c)) =>
      /\ Len(issued[c]) <= 1
      /\ (\E t \in Tasks : delivery[t].destination = c /\ GotToken(t))
           => Len(issued[c]) = 1

\* Two deliveries to the cold channel have both had a reply sent.
C2_Witness ==
  \E c \in DOMAIN channels :
    /\ Cold(c) /\ IssuanceSucceeded(c)
    /\ \E t1, t2 \in Tasks :
         /\ t1 # t2
         /\ \E s1 \in SentBy(t1), s2 \in SentBy(t2) : s1.channel = c /\ s2.channel = c

(***************************************************************************)
(* C3: on a channel that starts without a token, the first dispatch that   *)
(* produces a reply calls the token endpoint once; once a token is cached  *)
(* (the issuance answered 200) every later dispatch reuses it and calls    *)
(* the endpoint zero times; a channel with a cached token never calls it,  *)
(* and the token handed to the reply is the cached one.                    *)
(***************************************************************************)
C3_CachedTokenReused ==
  \A c \in DOMAIN channels :
    /\ ~Cold(c) => issued[c] = <<>>
    /\ (\E t \in Tasks : delivery[t].destination = c /\ GotToken(t))
         => (Cold(c) => Len(issued[c]) >= 1)
    /\ (Len(issued[c]) >= 1 /\ issued[c][1].outcome = "200") => Len(issued[c]) = 1
    /\ \A i \in 1..Len(issued[c]) :
         issued[c][i].outcome = "200" => i = Len(issued[c])
    /\ \A s \in sent :
         s.channel = c => channels[c].data.access_token = Some(s.access_token)
    /\ \A t \in Tasks :
         (pc[t] = "he_reply" /\ local[t].chan = c)
           => channels[c].data.access_token = local[t].token

\* A second dispatch's reply went out on the token the first dispatch issued,
\* and a reply went out on the token a channel was constructed with.
C3_Witness ==
  /\ \E c \in DOMAIN channels :
       /\ Cold(c) /\ Len(issued[c]) = 1
       /\ \E s1, s2 \in sent :
            s1.channel = c /\ s2.channel = c /\ s1 # s2
  /\ \E s \in sent : ~Cold(s.channel)

(***************************************************************************)
(* C4: no reply reaches the reply endpoint with an empty reply token,      *)
(* whatever the event it answers.                                          *)
(***************************************************************************)
C4_NoEmptyReplyToken ==
  \A s \in sent : s.reply_token # EmptyString

\* Results of a delivery whose token issuance failed.
IssuanceFailures ==
  {"OAuth.ErrorResponse", "OAuth.UnexpectedStatusResponse", "PanicIssue"}

\* The handler was invoked for all events of t in turn and returned a reply
\* for the last one only.
RepliesToLastOnly(t) ==
  LET n == Len(delivery[t].events)
  IN  /\ n >= 1
      /\ Len(handled[t]) = n
      /\ \A k \in 1..n : handled[t][k].idx = k /\ (handled[t][k].replied <=> k = n)

StitchedToken(ev) ==
  IF get_reply_token(ev) # None THEN get_reply_token(ev)[1] ELSE EmptyString

C6_UnknownDestination ==
  /\ [](\A t \in Tasks :
          (pc[t] # "idle" /\ ~Registered(t)) =>
            /\ ~get_channel(channels, delivery[t].destination).ok
            /\ get_channel(channels, delivery[t].destination).err = "Destination"
            /\ pc[t] \in {"sign", "done"}
            /\ (pc[t] = "done" => result[t] = "Destination")
            /\ handled[t] = <<>> /\ SentBy(t) = {} /\ local[t] = NoLocal
            /\ \A c \in DOMAIN channels : channels[c].holder # t)
  /\ [][\A t \in Tasks :
          (pc[t] = "sign" /\ ~Registered(t) /\ pc'[t] # pc[t]) =>
            /\ pc'[t] = "done" /\ result'[t] = "Destination"
            /\ UNCHANGED <<channels, issued, sent, handled>>]_vars

\* A delivery to an unregistered key has ended while another delivery holds
\* a registered channel's lock.
C6_Witness ==
  \E t \in Tasks :
    /\ pc[t] = "done" /\ delivery[t].destination = UnregisteredId
    /\ \E c \in DOMAIN channels : channels[c].holder # 0

(***************************************************************************)
(* C7: the events of a delivery reach the handler in their original order; *)
(* when a step (token issuance, reply send) fails for event k, nothing is  *)
(* done for events k+1..N and the delivery returns the error of event k.   *)
(***************************************************************************)
C7_AbortOnFirstError ==
  \A t \in Tasks :
    /\ \A k \in 1..Len(handled[t]) : handled[t][k].idx = k
    /\ \A s \in SentBy(t) :
         s.outcome # "200" =>
           /\ Len(handled[t]) <= s.idx
           /\ \A s2 \in SentBy(t) : s2.idx <= s.idx
           /\ pc[t] = "done" => result[t] = "Reply"
    /\ (pc[t] = "done" /\ result[t] \in IssuanceFailures) =>
           /\ Len(handled[t]) = idx[t]
           /\ \A s \in SentBy(t) : s.idx < idx[t]

(***************************************************************************)
(* C8: a reply send that fails, by transport failure or by a non-2xx       *)
(* response, makes the dispatch of that event return a Reply error, not    *)
(* success.                                                                *)
(***************************************************************************)
C8_ReplyFailureSurfaced ==
  \A s \in sent :
    s.outcome # "200" =>
      /\ idx[s.task] = s.idx
      /\ pc[s.task] = "done"
      /\ result[s.task] = "Reply"

(***************************************************************************)
(* C9: every failure of sign, handle_event, token issuance and reply       *)
(* sending ends in an error value returned to the caller; no handling task *)
(* ends in an uncaught fault.                                              *)
(***************************************************************************)
C9_NoUncaughtFault ==
  \A t \in Tasks : result[t] \notin Panics

\* Task t is between taking the channel lock in handle_event and releasing it.
InDispatch(t) == pc[t] \in {"he_handler", "he_token", "he_reply"}

\* The dispatch of delivery t's events has begun and is not complete.
Dispatching(t) ==
  /\ pc[t] # "done"
  /\ handled[t] # <<>> \/ InDispatch(t)

(***************************************************************************)
(* C10, as claimed: two deliveries to the same channel serialize for the   *)
(* whole request; one delivery dispatches all its events before another    *)
(* delivery to the same channel begins dispatching.                        *)
(***************************************************************************)
C10_WholeDeliverySerialized ==
  \A t1, t2 \in Tasks :
    (t1 # t2 /\ delivery[t1].destination = delivery[t2].destination)
      => ~(Dispatching(t1) /\ Dispatching(t2))

(***************************************************************************)
(* C10, amended: two deliveries to the same channel serialize for one      *)
(* event's dispatch; the steps of dispatching one event (handler           *)
(* invocation, token issuance, reply send) are made holding the channel's  *)
(* lock and are never interleaved with the dispatch steps or the signature *)
(* check of another delivery to the same channel.                          *)
(***************************************************************************)
C10_EventDispatchSerialized ==
  \A t1 \in Tasks :
    InDispatch(t1) =>
      /\ channels[local[t1].chan].holder = t1
      /\ local[t1].chan = delivery[t1].destination
      /\ \A t2 \in Tasks :
           (t2 # t1 /\ delivery[t2].destination = delivery[t1].destination)
             => ~InDispatch(t2) /\ pc[t2] # "sign_verify"

\* One delivery is at its token step while another delivery to the same
\* channel, with an event already dispatched, waits for the lock.
C10_Witness ==
  \E t1, t2 \in Tasks :
    /\ t1 # t2 /\ delivery[t1].destination = delivery[t2].destination
    /\ pc[t1] = "he_token"
    /\ pc[t2] = "he_lock" /\ handled[t2] # <<>>

(***************************************************************************)
(* Building the registry: MessagingApi::new() followed by add_channel      *)
(* calls, before any delivery is handled.                                  *)
(***************************************************************************)

\* Largest number of add_channel calls made on one registry.
MaxRegistrations == 3

\* The channels an integrator may construct.
ChannelInputs ==
  { Channel_new(id, secret, "U", access_token, handler) :
      id \in RegisteredIds, secret \in SignKeys,
      access_token \in {None, Some(PresetToken)}, handler \in {"h1", "h2"} }

BuildInit ==
  /\ channels = MessagingApi_new
  /\ registered = <<>>
  /\ NoDeliveries
  /\ NothingParsed

\* api = api.add_channel(channel)
AddChannel ==
  /\ Len(registered) < MaxRegistrations
  /\ \E channel \in ChannelInputs :
       /\ channels' = add_channel(channels, channel)
       /\ registered' = Append(registered, channel)
  /\ UNCHANGED <<pc, delivery, idx, local, result, verified, handled, issued, sent,
               raw, parsed>>

BuildNext == AddChannel

BuildSpec == BuildInit /\ [][BuildNext]_vars

\* The last channel registered under key k.
LastRegistered(k) ==
  LET is == { i \in 1..Len(registered) : registered[i].id = k }
  IN  registered[CHOOSE i \in is : \A j \in is : j <= i]

(***************************************************************************)
(* C12: registering a channel under a key that already has an entry is not *)
(* an error and replaces the entry: the registry has exactly one entry per *)
(* registered key, resolving a key yields the secret, handler and cached   *)
(* token of the channel registered last under it, in a fresh lock, and     *)
(* nothing of an earlier registration under that key; a registration       *)
(* leaves the entries under other keys as they were.                       *)
(***************************************************************************)
C12_SecondRegistrationReplaces ==
  /\ [](/\ DOMAIN channels = { registered[i].id : i \in 1..Len(registered) }
        /\ \A k \in DOMAIN channels :
             LET r == get_channel(channels, k)
             IN  /\ r.ok
                 /\ channels[r.id] = Mutex_new(LastRegistered(k)))
  /\ [][\A k \in DOMAIN channels :
          (Len(registered') = Len(registered) + 1
            /\ registered'[Len(registered')].id # k) => channels'[k] = channels[k]]_vars

\* Two channels that differ in secret, handler and cached token were
\* registered under one key, after a channel under another key.
C12_Witness ==
  /\ Len(registered) = 3
  /\ registered[1].id # registered[2].id
  /\ registered[2].id = registered[3].id
  /\ registered[2].secret # registered[3].secret
  /\ registered[2].handler # registered[3].handler
  /\ registered[2].access_token # registered[3].access_token
  /\ Cardinality(DOMAIN channels) = 2
  /\ channels[registered[3].id].data = registered[3]
  /\ channels[registered[1].id].data = registered[1]

\* The locks task t holds.
HeldBy(t) == { c \in DOMAIN channels : channels[c].holder = t }

\* Delivery t has started and has not ended.
Running(t) == pc[t] \notin {"idle", "done"}

\* A step of the handling task t after its delivery arrived.
Step(t) ==
  \/ SignLock(t)
  \/ SignVerify(t)
  \/ HandleEventLock(t)
  \/ HandleEventHandler(t)
  \/ HandleEventToken(t)
  \/ HandleEventReply(t)

(***************************************************************************)
(* C11: no deadlock is reachable: a handling task holds at most one        *)
(* channel lock, holds none when it is about to acquire one, and as long   *)
(* as some delivery is unfinished some unfinished delivery can take a      *)
(* step.                                                                   *)
(***************************************************************************)
C11_NoDeadlock ==
  /\ \A t \in Tasks : Cardinality(HeldBy(t)) <= 1
  /\ \A t \in Tasks : pc[t] \in {"idle", "sign", "he_lock", "done"} => HeldBy(t) = {}
  /\ (\E t \in Tasks : Running(t))
       => \E t \in Tasks : Running(t) /\ ENABLED Step(t)

\* One delivery waits for the lock of a channel while another delivery holds
\* it at its reply step, and the waiting one has already dispatched an event.
C11_Witness ==
  \E t1, t2 \in Tasks :
    /\ t1 # t2 /\ delivery[t1].destination = delivery[t2].destination
    /\ pc[t1] = "he_reply" /\ HeldBy(t1) = {delivery[t1].destination}
    /\ pc[t2] = "he_lock" /\ ~ENABLED Step(t2)

\* The request task t's step made to the token endpoint for channel c.
IssuanceBy(t, c) ==
  IF pc[t] = "he_token" /\ local[t].chan = c /\ Len(issued'[c]) = Len(issued[c]) + 1
  THEN Some(issued'[c][Len(issued'[c])])
  ELSE None

(***************************************************************************)
(* C13: a call of the token endpoint ends as follows: on 200 the returned  *)
(* token is cached in the channel and handed on to the reply step; on 400  *)
(* the delivery returns OAuth ErrorResponse; on another status it returns  *)
(* OAuth UnexpectedStatusResponse; on a transport failure it returns a     *)
(* wrapped transport error; in every case other than 200 no reply is sent  *)
(* for the event.                                                          *)
(***************************************************************************)
C13_IssuanceOutcomes ==
  [][\A t \in Tasks : \A c \in DOMAIN channels :
       IssuanceBy(t, c) # None =>
         LET o == IssuanceBy(t, c)[1].outcome
         IN  /\ o = "200" =>
                  /\ channels'[c].data.access_token = Some(IssuedToken(c, Len(issued'[c])))
                  /\ local'[t].token = channels'[c].data.access_token
                  /\ pc'[t] = "he_reply"
             /\ o = "400" => pc'[t] = "done" /\ result'[t] = "OAuth.ErrorResponse"
             /\ o = "500" => pc'[t] = "done" /\ result'[t] = "OAuth.UnexpectedStatusResponse"
             /\ o = "transport" => pc'[t] = "done" /\ result'[t] = "OAuth.Reqwest"
             /\ o # "200" =>
                  /\ pc'[t] = "done"
                  /\ sent' = sent
                  /\ channels'[c].data.access_token = None]_vars

\* The token channel c was constructed with.
ConstructionToken(c) == LastRegistered(c).access_token

\* Token tok was returned by a successful call of the token endpoint for c.
IssuedFor(c, tok) ==
  \E i \in 1..Len(issued[c]) :
    issued[c][i].outcome = "200" /\ tok = Some(IssuedToken(c, i))

(***************************************************************************)
(* C14: the cached access token of a channel is absent, or the value the   *)
(* channel was constructed with, or a value a successful issuance for that *)
(* channel returned; no step of sign or handle_event changes or removes a  *)
(* token that is present, a failed issuance leaves the token absent, and   *)
(* no step changes a channel's secret or id.                               *)
(***************************************************************************)
C14_TokenStable ==
  /\ [](\A c \in DOMAIN channels :
          LET tok == channels[c].data.access_token
          IN  tok = None \/ tok = ConstructionToken(c) \/ IssuedFor(c, tok))
  /\ [][\A c \in DOMAIN channels :
          /\ channels[c].data.access_token # None
               => channels'[c].data.access_token = channels[c].data.access_token
          /\ (\E t \in Tasks : /\ IssuanceBy(t, c) # None
                               /\ IssuanceBy(t, c)[1].outcome # "200")
               => channels'[c].data.access_token = None
          /\ channels'[c].data.secret = channels[c].data.secret
          /\ channels'[c].data.id = channels[c].data.id
          /\ channels'[c].data.id = c]_vars

\* The first issuance for channel 1 failed, the second succeeded, and two
\* replies were then sent with the token it returned, which is still cached.
C14_Witness ==
  /\ Len(issued[1]) = 2
  /\ issued[1][1].outcome # "200"
  /\ issued[1][2].outcome = "200"
  /\ channels[1].data.access_token = Some(IssuedToken(1, 2))
  /\ \E s1, s2 \in sent :
       /\ s1 # s2 /\ s1.channel = 1 /\ s2.channel = 1
       /\ s1.access_token = IssuedToken(1, 2) /\ s2.access_token = IssuedToken(1, 2)
  /\ channels[2].data.access_token = Some(PresetToken)

\* Delivery t ended with a failure.
Failed(t) == pc[t] = "done" /\ result[t] # "Ok"

(***************************************************************************)
(* C15: once a delivery has ended with a failure, the registry still has   *)
(* the registered keys, every channel still has the secret it was          *)
(* registered with, and every channel, the addressed one included, can     *)
(* still be resolved and locked: no lock is left poisoned or held by the   *)
(* failed delivery and no later delivery fails to acquire its channel.     *)
(***************************************************************************)
C15_FailureCorruptsNothing ==
  (\E t \in Tasks : Failed(t)) =>
    /\ DOMAIN channels = { registered[i].id : i \in 1..Len(registered) }
    /\ \A c \in DOMAIN channels :
         /\ get_channel(channels, c).ok
         /\ channels[c].data.secret = LastRegistered(c).secret
         /\ ~channels[c].poisoned
         /\ \A t \in Tasks : Failed(t) => channels[c].holder # t
    /\ \A t \in Tasks : result[t] # "PanicLock"

(***************************************************************************)
(* C16: deliveries to different channels are independent: an unfinished    *)
(* delivery can take its next sign or handle_event step unless the lock of *)
(* the channel it is addressed to is held by another task; a lock held on  *)
(* a different channel, also by a task in token issuance or reply sending, *)
(* never disables it, and no step of a task changes the entry of a channel *)
(* other than the one it resolved.                                         *)
(***************************************************************************)
C16_ChannelsIndependent ==
  /\ [](\A t \in Tasks :
          Running(t) =>
            \/ ENABLED Step(t)
            \/ \E u \in Tasks \ {t} : delivery[t].destination \in HeldBy(u))
  /\ [][\A t \in Tasks : \A c \in DOMAIN channels :
          (HeldBy(t) # {} /\ c \notin HeldBy(t) /\ pc'[t] # pc[t])
            => channels'[c] = channels[c]]_vars

\* One task holds channel A in token issuance while another, addressed to a
\* different channel B, has acquired B, got its token and is sending a reply.
C16_Witness ==
  \E t1, t2 \in Tasks :
    /\ pc[t1] = "he_token" /\ pc[t2] = "he_reply"
    /\ HeldBy(t1) # {} /\ HeldBy(t2) # {} /\ HeldBy(t1) # HeldBy(t2)
    /\ verified[t2]

\* Every handling task that can take a step eventually takes one: each
\* delivery runs on a thread of its own that the scheduler keeps running,
\* and the handler and the blocking HTTP calls return or panic.
FairSpec == Spec /\ \A t \in Tasks : WF_vars(Step(t))

\* Position p, at event i, in Parse -> Authenticate -> Dispatch x N -> Done.
PhaseRank(p, i) ==
  CASE p = "idle"        -> 0
    [] p = "sign"        -> 1
    [] p = "sign_verify" -> 2
    [] p = "he_lock"     -> 4 * i
    [] p = "he_handler"  -> 4 * i + 1
    [] p = "he_token"    -> 4 * i + 2
    [] p = "he_reply"    -> 4 * i + 3
    [] OTHER             -> 4 * (MaxEvents + 2)

(***************************************************************************)
(* C17: under fair scheduling every started delivery eventually ends, also *)
(* when it contends with other deliveries for a channel lock; every step   *)
(* of a delivery moves it forward in Parse -> Authenticate -> Dispatch x N *)
(* -> Done; a delivery that ends with success has dispatched all its       *)
(* events, and one that ends otherwise has not gone past the event that    *)
(* failed.                                                                 *)
(***************************************************************************)
C17_Terminates ==
  /\ \A t \in Tasks : Running(t) ~> (pc[t] = "done")
  /\ [][\A t \in Tasks :
          (pc'[t] # pc[t] \/ idx'[t] # idx[t])
            => PhaseRank(pc'[t], idx'[t]) > PhaseRank(pc[t], idx[t])]_vars
  /\ [](\A t \in Tasks : pc[t] = "done" =>
          IF result[t] = "Ok"
          THEN /\ Len(handled[t]) = Len(delivery[t].events)
               /\ verified[t]
          ELSE Len(handled[t]) <= idx[t])
  /\ [][\A t \in Tasks : pc[t] = "done" => pc'[t] = "done" /\ result'[t] = result[t]]_vars

\* Two deliveries of two events each to the same channel, both replying to
\* every event, have both ended with success.
C17_Witness ==
  \E t1, t2 \in Tasks :
    /\ t1 # t2 /\ delivery[t1].destination = delivery[t2].destination
    /\ pc[t1] = "done" /\ pc[t2] = "done"
    /\ result[t1] = "Ok" /\ result[t2] = "Ok"
    /\ Len(handled[t1]) = 2 /\ Len(handled[t2]) = 2
    /\ Cardinality(SentBy(t1)) = 2 /\ Cardinality(SentBy(t2)) = 2

\* Task t is inside the critical section of the channel it resolved: the
\* secret read of sign, or an event's handler call, token step or reply send.
InCriticalSection(t) == pc[t] = "sign_verify" \/ InDispatch(t)

(***************************************************************************)
(* C18: at most one task is inside the critical section of a channel       *)
(* (sign's secret read, the handler invocation, the read or write of the   *)
(* cached token, token issuance, the reply send); a task inside it holds   *)
(* the channel's lock, from before the handler call until after the reply  *)
(* send of the event; a task outside it holds no lock, whichever way it    *)
(* left, error returns included; the cached token is written, the token    *)
(* endpoint called and a reply sent only by the holder of the lock.        *)
(***************************************************************************)
C18_MutualExclusion ==
  /\ [](/\ \A c \in DOMAIN channels :
             Cardinality({ t \in Tasks : InCriticalSection(t) /\ local[t].chan = c }) <= 1
        /\ \A t \in Tasks :
             IF InCriticalSection(t)
             THEN HeldBy(t) = {local[t].chan}
             ELSE HeldBy(t) = {})
  /\ [][\A c \in DOMAIN channels :
          (\/ channels'[c].data # channels[c].data
           \/ issued'[c] # issued[c]
           \/ \E s \in sent' \ sent : s.channel = c)
            => \E t \in Tasks : /\ InDispatch(t)
                                /\ channels[c].holder = t
                                /\ pc'[t] # pc[t]]_vars

\* A delivery ended with an error returned by token issuance, and another
\* task then acquired the same channel and is sending a reply.
C18_Witness ==
  \E t1, t2 \in Tasks :
    /\ pc[t1] = "done"
    /\ result[t1] \in {"OAuth.ErrorResponse", "OAuth.UnexpectedStatusResponse"}
    /\ delivery[t2].destination = delivery[t1].destination
    /\ pc[t2] = "he_reply"
    /\ HeldBy(t2) = {delivery[t1].destination}

\* The handler invocations made for channel c that returned a reply.
RepliedOn(c) ==
  { <<t, i>> \in Tasks \X (1..MaxEvents) :
      /\ delivery[t].destination = c
      /\ i <= Len(handled[t])
      /\ handled[t][i].replied }

(***************************************************************************)
(* C19: token issuance is lazy: the dispatch of an event whose handler     *)
(* returns no reply calls neither the token endpoint nor the reply         *)
(* endpoint and leaves the channel's cached token as it was, so a channel  *)
(* whose handler never replied has had no token request and no reply; a    *)
(* step of sign calls no endpoint, invokes no handler and leaves the       *)
(* cached token as it was.                                                 *)
(***************************************************************************)
C19_LazyIssuance ==
  /\ [][\A t \in Tasks :
          /\ (/\ pc[t] = "he_handler"
              /\ Len(handled'[t]) = Len(handled[t]) + 1
              /\ ~handled'[t][Len(handled'[t])].replied)
               => /\ issued' = issued
                  /\ sent' = sent
                  /\ pc'[t] \in {"he_lock", "done"}
                  /\ \A c \in DOMAIN channels : channels'[c].data = channels[c].data
          /\ (pc[t] \in {"sign", "sign_verify"} /\ pc'[t] # pc[t])
               => /\ issued' = issued
                  /\ sent' = sent
                  /\ handled' = handled
                  /\ \A c \in DOMAIN channels : channels'[c].data = channels[c].data]_vars
  /\ [](\A c \in DOMAIN channels :
          /\ Len(issued[c]) <= Cardinality(RepliedOn(c))
          /\ \A s \in sent : s.channel = c => <<s.task, s.idx>> \in RepliedOn(c)
          /\ RepliedOn(c) = {} =>
               /\ issued[c] = <<>>
               /\ channels[c].data.access_token = ConstructionToken(c))

\* A verified delivery of two events to the channel without a token has
\* ended with success, its handler replied to neither event, and the channel
\* has had no token request and still has no token.
C19_Witness ==
  \E t \in Tasks :
    /\ pc[t] = "done" /\ result[t] = "Ok" /\ verified[t]
    /\ delivery[t].destination = 1
    /\ Len(handled[t]) = 2
    /\ ~handled[t][1].replied /\ ~handled[t][2].replied
    /\ RepliedOn(1) = {}
    /\ issued[1] = <<>>
    /\ channels[1].data.access_token = None

\* Token tok belongs to channel c: c was constructed with it, or the token
\* endpoint returned it to a request made with c's id and c's secret.
OwnToken(c, tok) ==
  \/ tok = ConstructionToken(c)
  \/ \E i \in 1..Len(issued[c]) :
       /\ issued[c][i].outcome = "200"
       /\ issued[c][i].client_id = channels[c].data.id
       /\ issued[c][i].client_secret = channels[c].data.secret
       /\ tok = Some(IssuedToken(channels[c].data.id, i))

(***************************************************************************)
(* C20: tokens are isolated between channels: every reply sent while       *)
(* dispatching an event for channel C carries the token cached in C, which *)
(* C was constructed with or which was issued to a request made with C's   *)
(* id and C's secret; every token request for C is made with C's id and    *)
(* secret; a token that belongs to one channel is never cached in, held    *)
(* for, or sent on behalf of another channel.                              *)
(***************************************************************************)
C20_TokenIsolation ==
  /\ \A s \in sent :
       /\ s.channel = delivery[s.task].destination
       /\ Some(s.access_token) = channels[s.channel].data.access_token
       /\ OwnToken(s.channel, Some(s.access_token))
       /\ \A d \in DOMAIN channels \ {s.channel} : ~OwnToken(d, Some(s.access_token))
  /\ \A c \in DOMAIN channels :
       /\ \A i \in 1..Len(issued[c]) :
            /\ issued[c][i].client_id = c
            /\ issued[c][i].client_secret = LastRegistered(c).secret
       /\ channels[c].data.access_token # None =>
            /\ OwnToken(c, channels[c].data.access_token)
            /\ \A d \in DOMAIN channels \ {c} :
                 ~OwnToken(d, channels[c].data.access_token)
  /\ \A t \in Tasks :
       local[t].token # None =>
         /\ local[t].chan = delivery[t].destination
         /\ local[t].token = channels[local[t].chan].data.access_token

\* Replies were sent for both channels, by different deliveries, while one
\* was still dispatching: channel 1's with the token issued for channel 1,
\* channel 2's with the token channel 2 was constructed with.
C20_Witness ==
  \E s1, s2 \in sent :
    /\ s1.channel = 1 /\ s2.channel = 2 /\ s1.task # s2.task
    /\ s1.access_token = IssuedToken(1, Len(issued[1]))
    /\ s2.access_token = PresetToken
    /\ issued[2] = <<>>
    /\ pc[s1.task] = "he_reply" /\ pc[s2.task] = "done"

(***************************************************************************)
(* Parsing a body: RequestBody::try_from applied to a body text.           *)
(***************************************************************************)

ParseInit ==
  /\ channels = InitChannels
  /\ registered = StartupChannels
  /\ NoDeliveries
  /\ raw \in Texts
  /\ parsed = NotParsed

\* parsed = RequestBody::try_from(raw)
TryFrom ==
  /\ parsed = NotParsed
  /\ parsed' = try_from(raw)
  /\ UNCHANGED <<channels, pc, delivery, idx, local, result, verified, handled, issued,
                 sent, registered, raw>>

ParseNext == TryFrom

ParseSpec == ParseInit /\ [][ParseNext]_vars

(***************************************************************************)
(* C21: for a body text s that parses, RequestBody::try_from(s) is a body  *)
(* whose src is s exactly, as received, also when the JSON object of s has *)
(* a "src" member of its own, and whose destination and events are the     *)
(* parsed ones; for a text that does not parse the result is a             *)
(* RequestBodyError and carries no RequestBody.                            *)
(***************************************************************************)
C21_SrcIsInput ==
  parsed # NotParsed =>
    IF from_str(raw).tag = "Ok"
    THEN /\ parsed.tag = "Ok"
         /\ parsed.body.src = raw
         /\ parsed.body.destination = from_str(raw).body.destination
         /\ parsed.body.events = from_str(raw).body.events
    ELSE /\ parsed.tag = "Err"
         /\ parsed.err = "RequestBodyError.Parse"
         /\ parsed.body = NoBody

\* A text written with whitespace, whose object has a "src" member naming a
\* different String and one event, was parsed: src is the text received,
\* not the member's value and not a compact rewriting.
C21_Witness ==
  /\ parsed.tag = "Ok"
  /\ raw.spaced
  /\ \E i \in 1..Len(raw.members) :
       /\ raw.members[i].key = "src"
       /\ StringOf(raw.members[i].val) # raw
       /\ from_str(raw).body.src = StringOf(raw.members[i].val)
  /\ parsed.body.events = <<"Follow">>
  /\ parsed.body.src = raw

\* A text that does not parse, cut off after a well-formed prefix, was given
\* to try_from and the result is the error.
C21_RejectWitness ==
  /\ parsed.tag = "Err"
  /\ ~raw.complete
  /\ Len(MembersAt(raw, "destination")) = 1
  /\ Len(MembersAt(raw, "events")) = 1

\* Sanity of the control state.
TypeOK ==
  /\ \A t \in Tasks : pc[t] \in {"idle", "sign", "sign_verify", "he_lock",
                                  "he_handler", "he_token", "he_reply", "done"}
  /\ \A c \in DOMAIN channels : channels[c].holder \in {0} \cup Tasks

====
